---------------------------- MODULE Spec2Model ----------------------------
(***************************************************************************)
(* A model of arbitrary_logger: the target filter (filtered.rs), the       *)
(* one-time installation of the handler (lib.rs) and the record writer     *)
(* (logger/pretty.rs, format/writer.rs).                                   *)
(*                                                                         *)
(* Text is a sequence of one-character strings, so that prefix tests,      *)
(* substring tests and splitting are computed as the code computes them.   *)
(* Option<T> is a sequence of length 0 (None) or 1 (Some).                 *)
(***************************************************************************)
EXTENDS Integers, Sequences, FiniteSets, TLC

VARIABLES
    \* ---- filtered.rs ----
    fSegs,      \* the segments last handed to Filtered::new
    fTable,     \* Option<Filtered>: the table built from them
    fQuery,     \* Option<(input, level, result)>: the last apply() call
    \* ---- lib.rs: installation ----
    Instance,   \* the OnceCell<Logger>: None or Some(Logger)
    LogState,      \* the facade's registration state
    LOGGER,     \* the handler the facade dispatches to
    MAX_LEVEL,  \* the facade's global minimum-severity gate
    calls,      \* number of initialize calls started so far
    ipc,        \* per thread: position inside init / init_with_filters
    iarg,       \* per thread: the arguments and the state seen at entry
    returned,   \* the calls that have returned, with what they returned
    \* ---- lib.rs / logger/pretty.rs: handling records ----
    host,       \* the build and the terminal: [color_feature, ansi]
    active,     \* the threads that log
    inputs,     \* the (target, level) pairs they log
    handled,    \* the records handed to Logger::log so far, with their outcome
    hpc,        \* per thread: position inside Logger::log / Pretty::print
    hrec,       \* per thread: the record being printed (index into handled)
    hstage,     \* per thread: the next render stage of Pretty::print
    buffer,     \* per thread: the termcolor::Buffer of the color build
    lock,       \* the holder of the standard output lock, 0 when free
    stdout,     \* what has been written to standard output, in order
    \* ---- format/time.rs: the two time sources side by side ----
    tStyle,     \* the TimestampStyle both sources are built with
    tElapsed,   \* the duration both clocks answer: [secs, nanos]
    tOut,       \* per source: Option of what format_time returned and wrote
    \* ---- logger/pretty.rs: the builder ----
    builder,    \* Option<PrettyBuilder>: the builder being configured
    bCalls,     \* the option calls made on it so far, in order
    built       \* Option<Pretty>: what build() returned

fvars == <<fSegs, fTable, fQuery>>
ivars == <<Instance, LogState, LOGGER, MAX_LEVEL, calls, ipc, iarg, returned>>
hvars == <<host, active, inputs, handled, hpc, hrec, hstage, buffer, lock, stdout>>
tvars == <<tStyle, tElapsed, tOut>>
bvars == <<builder, bCalls, built>>
vars == <<fvars, ivars, hvars, tvars, bvars>>

None == <<>>
Some(x) == <<x>>
Unwrap(o) == o[1]

------------------------------------------------------------------------------
(* Text helpers                                                              *)

\* str::starts_with
StartsWith(s, k) ==
    /\ Len(k) <= Len(s)
    /\ SubSeq(s, 1, Len(k)) = k

\* str::contains
Contains(s, pat) ==
    \E i \in 1..(Len(s) - Len(pat) + 1) : SubSeq(s, i, i + Len(pat) - 1) = pat

\* str::split(c): the pieces between the occurrences of c ("" splits to [""])
RECURSIVE Split(_, _)
Split(s, c) ==
    IF \E i \in 1..Len(s) : s[i] = c
    THEN LET i == CHOOSE i \in 1..Len(s) :
                      s[i] = c /\ \A j \in 1..(i - 1) : s[j] # c
         IN  <<SubSeq(s, 1, i - 1)>> \o Split(SubSeq(s, i + 1, Len(s)), c)
    ELSE <<s>>

\* the inverse used to build input strings: pieces joined by c
RECURSIVE Join(_, _)
Join(pieces, c) ==
    IF pieces = <<>> THEN <<>>
    ELSE IF Len(pieces) = 1 THEN pieces[1]
    ELSE pieces[1] \o <<c>> \o Join(Tail(pieces), c)

UpperAlpha == <<"A","B","C","D","E","F","G","H","I","J","K","L","M",
                "N","O","P","Q","R","S","T","U","V","W","X","Y","Z">>
LowerAlpha == <<"a","b","c","d","e","f","g","h","i","j","k","l","m",
                "n","o","p","q","r","s","t","u","v","w","x","y","z">>

\* u8::to_ascii_lowercase
ToAsciiLower(c) ==
    IF \E i \in 1..Len(UpperAlpha) : UpperAlpha[i] = c
    THEN LowerAlpha[CHOOSE i \in 1..Len(UpperAlpha) : UpperAlpha[i] = c]
    ELSE c

\* str::eq_ignore_ascii_case
EqIgnoreAsciiCase(a, b) ==
    /\ Len(a) = Len(b)
    /\ \A i \in 1..Len(a) : ToAsciiLower(a[i]) = ToAsciiLower(b[i])

------------------------------------------------------------------------------
(* Severity levels.  log::Level is Error..Trace, log::LevelFilter adds Off;  *)
(* the two are compared by ordinal.                                          *)

Levels == {"Error", "Warn", "Info", "Debug", "Trace"}
LevelFilters == {"Off"} \cup Levels
Ord == [Off |-> 0, Error |-> 1, Warn |-> 2, Info |-> 3, Debug |-> 4, Trace |-> 5]

------------------------------------------------------------------------------
(* filtered.rs                                                               *)

\* parse_level: case-insensitive names, anything else is Off
parse_level(s) ==
    IF EqIgnoreAsciiCase(s, <<"t","r","a","c","e">>) THEN "Trace"
    ELSE IF EqIgnoreAsciiCase(s, <<"d","e","b","u","g">>) THEN "Debug"
    ELSE IF EqIgnoreAsciiCase(s, <<"i","n","f","o">>) THEN "Info"
    ELSE IF EqIgnoreAsciiCase(s, <<"w","a","r","n">>) THEN "Warn"
    ELSE IF EqIgnoreAsciiCase(s, <<"e","r","r","o","r">>) THEN "Error"
    ELSE "Off"

\* the filter_map closure of Filtered::new: split on '=', the first piece is
\* the key, the second the level; None when there is no second piece
ParseRule(s) ==
    LET iter == Split(s, "=")
    IN  IF Len(iter) < 2 THEN None
        ELSE Some(<<iter[1], parse_level(iter[2])>>)

\* HashMap::insert on a map kept as a set of (key, value) pairs
MapInsert(m, k, v) == {p \in m : p[1] # k} \cup {<<k, v>>}

\* Filtered::new: collect() of the parsed rules into the HashMap, in order
RECURSIVE CollectRules(_, _)
CollectRules(segs, m) ==
    IF segs = <<>> THEN m
    ELSE LET r == ParseRule(Head(segs))
         IN  CollectRules(Tail(segs),
                          IF r = None THEN m
                          ELSE MapInsert(m, Unwrap(r)[1], Unwrap(r)[2]))

Filtered_new(segs) == CollectRules(segs, {})

\* Filtered::from_str
Filtered_from_str(string) == Filtered_new(Split(string, ","))

\* Filtered::from_env_key, env being the Option value of the variable
Filtered_from_env_key(env) ==
    IF env = None THEN {} ELSE Filtered_new(Split(Unwrap(env), ","))

\* the first test of the closure of Filtered::apply: does rule key k apply
\* to the target at all
RuleMatches(k, input) ==
    ~ ( \/ ~StartsWith(input, k)
        \/ (~Contains(input, <<":", ":">>) /\ k # input) )

\* the closure with the threshold comparison turned around
RuleSuppresses_Inverted(k, v, input, level) ==
    IF ~RuleMatches(k, input) THEN FALSE
    ELSE Ord[level] <= Ord[v]

\* the closure of Filtered::apply for one (k, v) entry
RuleSuppresses(k, v, input, level) ==
    IF ~RuleMatches(k, input) THEN FALSE
    ELSE Ord[level] >= Ord[v]

\* Filtered::apply: any() over the entries
Filtered_apply(targets, input, level) ==
    \E p \in targets : RuleSuppresses(p[1], p[2], input, level)

------------------------------------------------------------------------------
(* Inputs of the filter: the rule segments and targets of the crate's own    *)
(* test (lib.rs, new_filtered and new_rust_log) and their near neighbours.   *)

Tokio == <<"t","o","k","i","o">>
Mio == <<"m","i","o">>
Io == <<"i","o">>
Sep == <<":", ":">>
Eq == <<"=">>
TxtTrace == <<"t","r","a","c","e">>
TxtDebug == <<"d","e","b","u","g">>
TxtInfo == <<"i","n","f","o">>
TxtWarnUpper == <<"W","A","R","N">>

SegTokioIoTrace == Tokio \o Sep \o Io \o Eq \o TxtTrace   \* "tokio::io=trace"
SegMioDebug == Mio \o Eq \o TxtDebug                       \* "mio=debug"
SegTokioTrace == Tokio \o Eq \o TxtTrace                   \* "tokio=trace"
SegTokioWarn == Tokio \o Eq \o TxtWarnUpper                \* "tokio=WARN"
SegEmptyKey == Eq \o TxtDebug                              \* "=debug"
SegNoEq == Mio                                             \* "mio"
SegBlank == <<" ">>                                        \* " "
SegBadLevel == <<"a">> \o Eq \o <<"x">>                    \* "a=x"
SegTwoEq == <<"a">> \o Eq \o TxtInfo \o Eq \o TxtTrace     \* "a=info=trace"

Segments == {SegTokioIoTrace, SegMioDebug, SegTokioTrace, SegTokioWarn,
             SegEmptyKey, SegNoEq, SegBlank, SegBadLevel, SegTwoEq}

\* the rules of the test new_filtered
TestRules == <<SegTokioIoTrace, SegMioDebug>>

TgtMioUdsSpam == Mio \o Sep \o <<"u","d","s">> \o Sep \o <<"s","p","a","m">>
TgtTokioIoRead == Tokio \o Sep \o Io \o Sep \o <<"R","e","a","d">>
TgtTokio == Tokio
TgtMionext == Mio \o <<"n","e","x","t">>
TgtMioFoo == Mio \o Sep \o <<"f","o","o">>
TgtTokioSyncMutex == Tokio \o Sep \o <<"s","y","n","c">> \o Sep \o <<"m","u","t","e","x">>
TgtTokioUtilIo == Tokio \o <<"_","u","t","i","l">> \o Sep \o Io
TgtTokioX == Tokio \o <<"X">>
TgtA == <<"a">>
TgtAB == <<"a">> \o Sep \o <<"b">>
TgtAbC == <<"a","b">> \o Sep \o <<"c">>

Targets == {TgtMioUdsSpam, TgtTokioIoRead, TgtTokio, TgtMionext, TgtMioFoo,
            TgtTokioSyncMutex, TgtTokioUtilIo, TgtTokioX, TgtA, TgtAB, TgtAbC}

\* the longest rule list handed to Filtered::new
MaxRules == 2

SegLists == UNION {[1..n -> Segments] : n \in 0..MaxRules}

------------------------------------------------------------------------------
(* The filter as a state machine: a table is built once by one of the three  *)
(* constructors (it is immutable afterwards), then queried.                  *)

FilterInit ==
    /\ fSegs = <<>>
    /\ fTable = None
    /\ fQuery = None

\* Filtered::new(segs)
FilteredNew ==
    /\ fTable = None
    /\ \E segs \in SegLists :
        /\ fSegs' = segs
        /\ fTable' = Some(Filtered_new(segs))
        /\ fQuery' = None
        /\ UNCHANGED <<ivars, hvars, tvars, bvars>>

\* Filtered::from_str(string), the string being segments joined by ','
FilteredFromStr ==
    /\ fTable = None
    /\ \E segs \in SegLists :
        LET string == Join(segs, ",")
        IN  /\ fSegs' = Split(string, ",")
            /\ fTable' = Some(Filtered_from_str(string))
            /\ fQuery' = None
            /\ UNCHANGED <<ivars, hvars, tvars, bvars>>

\* Filtered::from_env_key(key), the variable being unset or set
FilteredFromEnvKey ==
    /\ fTable = None
    /\ \E env \in {None} \cup {Some(Join(segs, ",")) : segs \in SegLists} :
        /\ fSegs' = IF env = None THEN <<>> ELSE Split(Unwrap(env), ",")
        /\ fTable' = Some(Filtered_from_env_key(env))
        /\ fQuery' = None
        /\ UNCHANGED <<ivars, hvars, tvars, bvars>>

\* Filtered::apply(input, level) on the table built last
FilteredApply ==
    /\ fTable # None
    /\ fQuery = None
    /\ \E input \in Targets, level \in Levels :
        fQuery' = Some([input |-> input, level |-> level,
                        result |-> Filtered_apply(Unwrap(fTable), input, level)])
    /\ UNCHANGED <<fSegs, fTable>>
    /\ UNCHANGED <<ivars, hvars, tvars, bvars>>

------------------------------------------------------------------------------
(* lib.rs: init / init_with_filters.  Each call runs three steps, which      *)
(* threads interleave: Instance.get_or_init, log::set_max_level and          *)
(* log::set_logger.  The facade keeps a registration state that goes         *)
(* UNINITIALIZED -> INITIALIZING -> INITIALIZED by compare-and-swap; a       *)
(* caller that loses the swap waits out INITIALIZING and gets the error.     *)

\* threads that call the initialization API
NThreads == 2
\* initialize calls made in one process
MaxCalls == 3

Threads == 1..NThreads

\* the min_level arguments the calls choose from: init is called with Info,
\* init_with_filters with Trace and the rules of the test new_filtered
InitLevels == {"Info"}
InitWithFiltersLevels == {"Trace"}

\* the Logger a call constructs in its get_or_init closure; the format object
\* a caller moves in is its own, named by the number of the call
Logger(fmt, min_level, filters) ==
    [fmt |-> fmt, min_level |-> min_level, filters |-> filters]

\* a handler registered with the facade by somebody else
ForeignLogger == Logger(0, "Off", None)

\* the handler the facade dispatches to, None while it is the no-op default
InstalledHandler ==
    CASE LOGGER = "nop" -> None
      [] LOGGER = "instance" -> Instance
      [] LOGGER = "foreign" -> Some(ForeignLogger)

InstallInit ==
    /\ Instance = None
    /\ LogState = "UNINITIALIZED"
    /\ LOGGER = "nop"
    /\ MAX_LEVEL = "Off"
    /\ calls = 0
    /\ ipc = [t \in Threads |-> "idle"]
    /\ iarg = [t \in Threads |-> None]
    /\ returned = {}

\* entry of a call: the arguments, and the facade's state at entry
Enter(t, fn, min_level, filters) ==
    /\ ipc[t] = "idle"
    /\ calls < MaxCalls
    /\ calls' = calls + 1
    /\ iarg' = [iarg EXCEPT ![t] =
                   Some([id |-> calls + 1, fn |-> fn,
                         logger |-> Logger(calls + 1, min_level, filters),
                         gate0 |-> MAX_LEVEL, handler0 |-> InstalledHandler])]
    /\ ipc' = [ipc EXCEPT ![t] = "get_or_init"]
    /\ UNCHANGED <<Instance, LogState, LOGGER, MAX_LEVEL, returned>>
    /\ UNCHANGED <<fvars, hvars, tvars, bvars>>

\* init(format, min_level)
init(t) ==
    \E min_level \in InitLevels : Enter(t, "init", min_level, None)

\* init_with_filters(format, min_level, filters)
init_with_filters(t) ==
    \E min_level \in InitWithFiltersLevels :
        Enter(t, "init_with_filters", min_level, Some(Filtered_new(TestRules)))

\* Instance.get_or_init(|| Logger { .. }): the closure runs only if the cell
\* is empty
GetOrInit(t) ==
    /\ ipc[t] = "get_or_init"
    /\ Instance' = IF Instance = None THEN Some(Unwrap(iarg[t]).logger)
                   ELSE Instance
    /\ ipc' = [ipc EXCEPT ![t] = "set_max_level"]
    /\ UNCHANGED <<LogState, LOGGER, MAX_LEVEL, calls, iarg, returned>>
    /\ UNCHANGED <<fvars, hvars, tvars, bvars>>

\* log::set_max_level(LevelFilter::Trace)
SetMaxLevel(t) ==
    /\ ipc[t] = "set_max_level"
    /\ MAX_LEVEL' = "Trace"
    /\ ipc' = [ipc EXCEPT ![t] = "set_logger"]
    /\ UNCHANGED <<Instance, LogState, LOGGER, calls, iarg, returned>>
    /\ UNCHANGED <<fvars, hvars, tvars, bvars>>

\* a set_logger that registers whatever the registration state is
SetLogger_Unguarded(t) ==
    /\ ipc[t] = "set_logger"
    /\ LogState' = "INITIALIZING"
    /\ ipc' = [ipc EXCEPT ![t] = "store"]
    /\ UNCHANGED <<Instance, LOGGER, MAX_LEVEL, calls, iarg, returned>>
    /\ UNCHANGED <<fvars, hvars, tvars, bvars>>

\* log::set_logger(instance), the swap: the winner goes on to store the
\* handler, a caller that finds INITIALIZED gets the error, and a caller that
\* finds INITIALIZING waits
SetLogger(t) ==
    /\ ipc[t] = "set_logger"
    /\ \/ /\ LogState = "UNINITIALIZED"
          /\ LogState' = "INITIALIZING"
          /\ ipc' = [ipc EXCEPT ![t] = "store"]
       \/ /\ LogState = "INITIALIZED"
          /\ LogState' = LogState
          /\ ipc' = [ipc EXCEPT ![t] = "err"]
    /\ UNCHANGED <<Instance, LOGGER, MAX_LEVEL, calls, iarg, returned>>
    /\ UNCHANGED <<fvars, hvars, tvars, bvars>>

\* log::set_logger(instance), the winner: store the handler, publish it
SetLoggerStore(t) ==
    /\ ipc[t] = "store"
    /\ LOGGER' = "instance"
    /\ LogState' = "INITIALIZED"
    /\ ipc' = [ipc EXCEPT ![t] = "ok"]
    /\ UNCHANGED <<Instance, MAX_LEVEL, calls, iarg, returned>>
    /\ UNCHANGED <<fvars, hvars, tvars, bvars>>

\* the call returns what set_logger returned
Return(t) ==
    /\ ipc[t] \in {"ok", "err"}
    /\ returned' = returned \cup
           {[id |-> Unwrap(iarg[t]).id,
             logger |-> Unwrap(iarg[t]).logger,
             ret |-> IF ipc[t] = "ok" THEN "Ok" ELSE "Err",
             gate0 |-> Unwrap(iarg[t]).gate0, gate1 |-> MAX_LEVEL,
             handler0 |-> Unwrap(iarg[t]).handler0,
             handler1 |-> InstalledHandler]}
    /\ ipc' = [ipc EXCEPT ![t] = "idle"]
    /\ iarg' = [iarg EXCEPT ![t] = None]
    /\ UNCHANGED <<Instance, LogState, LOGGER, MAX_LEVEL, calls>>
    /\ UNCHANGED <<fvars, hvars, tvars, bvars>>

\* another party of the process registers its own handler with the facade
ForeignSetLogger ==
    /\ LogState = "UNINITIALIZED"
    /\ LOGGER' = "foreign"
    /\ LogState' = "INITIALIZED"
    /\ UNCHANGED <<Instance, MAX_LEVEL, calls, ipc, iarg, returned>>
    /\ UNCHANGED <<fvars, hvars, tvars, bvars>>

------------------------------------------------------------------------------
(* format/time.rs                                                            *)

DigitChars == <<"0","1","2","3","4","5","6","7","8","9">>

\* Display of an unsigned integer
RECURSIVE Digits(_)
Digits(n) ==
    IF n < 10 THEN <<DigitChars[n + 1]>>
    ELSE Digits(n \div 10) \o <<DigitChars[(n % 10) + 1]>>

\* scale(d, s): the nanoseconds d cut down to s digits
scale(d, s) ==
    IF s > 9 THEN d
    ELSE d \div (10 ^ (9 - s))

\* TimestampStyle
Whole == [kind |-> "Whole", width |-> 0]
Fractional(n) == [kind |-> "Fractional", width |-> n]

\* the result of a fallible write: whether it succeeded, and what it wrote
\* before it returned
Ok(w) == [ok |-> TRUE, out |-> w]
Err(w) == [ok |-> FALSE, out |-> w]

\* <Timestamp as FormatTime>::format_time; now is the Option result of
\* SystemTime::now().duration_since(UNIX_EPOCH)
Timestamp_format_time(style, now) ==
    IF now = None THEN Err(<<>>)
    ELSE LET elapsed == Unwrap(now)
         IN  IF style.kind = "Whole" THEN Ok(Digits(elapsed.secs))
             ELSE IF style.width = 0 THEN Ok(Digits(elapsed.secs))
             ELSE Ok(Digits(elapsed.secs) \o <<".">>
                     \o Digits(scale(elapsed.nanos, style.width)))

\* <Uptime as FormatTime>::format_time; elapsed is self.epoch.elapsed()
Uptime_format_time(style, elapsed) ==
    IF style.kind = "Whole" THEN Ok(Digits(elapsed.secs) \o <<"s">>)
    ELSE Ok(Digits(elapsed.secs) \o <<".">>
            \o Digits(scale(elapsed.nanos, style.width)) \o <<"s">>)

\* <() as FormatTime>::format_time
Unit_format_time == Ok(<<>>)

\* a time source, and the dispatch of FormatTime::format_time on it; clock
\* is what the two clocks answer at the call
TimeSource(kind, style) == [kind |-> kind, style |-> style]

format_time(time, clock) ==
    CASE time.kind = "Timestamp" -> Timestamp_format_time(time.style, clock.wall)
      [] time.kind = "Uptime" -> Uptime_format_time(time.style, clock.mono)
      [] time.kind = "Unit" -> Unit_format_time

------------------------------------------------------------------------------
(* format/color.rs and format/writer.rs.  What a writer does to its sink is  *)
(* a sequence of operations: "write" of a text, "set" of a foreground color  *)
(* and "reset".  On a sink without color (ColorChoice::Never, or a terminal  *)
(* without color support) set and reset do nothing.                          *)

Op(kind, arg) == [op |-> kind, arg |-> arg]
Write(text) == IF text = <<>> THEN <<>> ELSE <<Op("write", text)>>
SetColor(ansi, color) == IF ansi THEN <<Op("set", <<color>>)>> ELSE <<>>
Reset(ansi) == IF ansi THEN <<Op("reset", <<>>)>> ELSE <<>>

\* LevelColorConfig::default and RecordColorConfig::default
DefaultLevelColors ==
    [Error |-> "Red", Warn |-> "Yellow", Info |-> "Green",
     Debug |-> "Cyan", Trace |-> "Blue"]
DefaultRecordColors ==
    [level |-> DefaultLevelColors, target |-> "Ansi256(131)",
     timestamp |-> "Ansi256(243)", continuation |-> "Ansi256(237)",
     message |-> "Ansi256(231)"]

\* Display of log::Level
LevelText ==
    [Error |-> <<"E","R","R","O","R">>, Warn |-> <<"W","A","R","N">>,
     Info |-> <<"I","N","F","O">>, Debug |-> <<"D","E","B","U","G">>,
     Trace |-> <<"T","R","A","C","E">>]

\* "{:<w}": left-justified, padded with spaces up to width w
PadLeftJustified(text, w) ==
    IF Len(text) >= w THEN text
    ELSE text \o [i \in 1..(w - Len(text)) |-> " "]

\* Writer::inner_level
inner_level(record) == Write(PadLeftJustified(LevelText[record.level], 5))

\* Writer::inner_target
inner_target(record) == Write(record.target)

\* Writer::inner_timestamp: a space, then the time source
inner_timestamp(time, clock) ==
    LET t == format_time(time, clock)
    IN  [ok |-> t.ok, out |-> Write(<<" ">>) \o Write(t.out)]

\* Writer::inner_continuation
inner_continuation(cont) == Write(cont)

\* Writer::inner_message
inner_message(record) == Write(<<" ">> \o record.args)

\* Writer::level, of the build with and without the feature "color"
Writer_level(record, colors, feature, ansi) ==
    IF feature
    THEN Ok(SetColor(ansi, colors.level[record.level])
            \o inner_level(record) \o Reset(ansi))
    ELSE Ok(inner_level(record))

\* Writer::target with the reset after the closing bracket
Writer_target_LateReset(record, colors, feature, ansi) ==
    IF feature
    THEN Ok(Write(<<" ", "[">>) \o SetColor(ansi, colors.target)
            \o inner_target(record) \o Write(<<"]">>) \o Reset(ansi))
    ELSE Ok(Write(<<" ", "[">>) \o inner_target(record) \o Write(<<"]">>))

\* Writer::target
Writer_target(record, colors, feature, ansi) ==
    IF feature
    THEN Ok(Write(<<" ", "[">>) \o SetColor(ansi, colors.target)
            \o inner_target(record) \o Reset(ansi) \o Write(<<"]">>))
    ELSE Ok(Write(<<" ", "[">>) \o inner_target(record) \o Write(<<"]">>))

\* Writer::timestamp; a failing time source ends it before the reset
Writer_timestamp(record, colors, feature, ansi, time, clock) ==
    LET inner == inner_timestamp(time, clock)
    IN  IF feature
        THEN IF inner.ok
             THEN Ok(Write(<<" ">>) \o SetColor(ansi, colors.timestamp)
                     \o inner.out \o Reset(ansi))
             ELSE Err(Write(<<" ">>) \o SetColor(ansi, colors.timestamp)
                      \o inner.out)
        ELSE inner

\* Writer::continuation
Writer_continuation(record, colors, feature, ansi, cont) ==
    IF feature
    THEN Ok(Write(<<"\n">>) \o SetColor(ansi, colors.continuation)
            \o inner_continuation(cont) \o Reset(ansi))
    ELSE Ok(Write(<<"\n">>) \o inner_continuation(cont))

\* Writer::message
Writer_message(record, colors, feature, ansi) ==
    IF feature
    THEN Ok(SetColor(ansi, colors.message) \o inner_message(record)
            \o Reset(ansi) \o Write(<<"\n">>))
    ELSE Ok(inner_message(record) \o Write(<<"\n">>))

------------------------------------------------------------------------------
(* logger/pretty.rs                                                          *)

\* DEFAULT_CONTINUATION: U+2937, the three bytes of its UTF-8 encoding
DefaultContinuation == <<"0xE2", "0xA4", "0xB7">>

Pretty(level, target, time, continuation, use_color) ==
    [level |-> level, target |-> target, time |-> time,
     continuation |-> continuation, use_color |-> use_color,
     record_colors |-> DefaultRecordColors]

\* the render stages of Pretty::print, in the order of its statements
Stages == <<"level", "target", "timestamp", "continuation", "message">>

\* the sink of Pretty::print paints: the feature is compiled in, the logger
\* asks for ColorChoice::Auto and the terminal supports color
Painting(pretty, e) == e.color_feature /\ pretty.use_color /\ e.ansi

\* one statement of Pretty::print: the stage, if the configuration has it
Pretty_print_stage(pretty, stage, record, e, clock) ==
    LET colors == pretty.record_colors
        feature == e.color_feature
        ansi == Painting(pretty, e)
    IN  CASE stage = "level" ->
                 IF pretty.level
                 THEN Writer_level(record, colors, feature, ansi)
                 ELSE Ok(<<>>)
          [] stage = "target" ->
                 IF pretty.target
                 THEN Writer_target(record, colors, feature, ansi)
                 ELSE Ok(<<>>)
          [] stage = "timestamp" ->
                 IF pretty.time # None
                 THEN Writer_timestamp(record, colors, feature, ansi,
                                       Unwrap(pretty.time), clock)
                 ELSE Ok(<<>>)
          [] stage = "continuation" ->
                 IF pretty.continuation # None
                 THEN Writer_continuation(record, colors, feature, ansi,
                                          Unwrap(pretty.continuation))
                 ELSE Ok(<<>>)
          [] stage = "message" ->
                 Writer_message(record, colors, feature, ansi)

------------------------------------------------------------------------------
(* lib.rs: Logger as the facade's handler                                    *)

\* enabled with the comparison turned around
Logger_enabled_Reversed(logger, level) == Ord[level] >= Ord[logger.min_level]

\* <Logger as log::Log>::enabled
Logger_enabled(logger, level) == Ord[level] <= Ord[logger.min_level]

\* <Logger as log::Log>::log: whether the record is handed to print
Logger_log(logger, target, level) ==
    IF Logger_enabled(logger, level)
    THEN IF logger.filters # None
         THEN IF ~Filtered_apply(Unwrap(logger.filters), target, level)
              THEN TRUE
              ELSE FALSE
         ELSE TRUE
    ELSE FALSE

------------------------------------------------------------------------------
(* Handling records.  A thread that logs runs Logger::log; if the record is  *)
(* accepted it runs Pretty::print, stage by stage.  The build without the    *)
(* feature "color" locks standard output first and writes every stage        *)
(* through the lock; the build with it renders into a termcolor::Buffer and  *)
(* hands the buffer to BufferWriter::print, which locks standard output and  *)
(* writes the whole buffer.  stdout is the sequence of what was written to   *)
(* the standard output handle, each item tagged with the record it is of.    *)

\* threads that log concurrently
NLogThreads == 2
\* records logged in one run
MaxRecords == 2

LogThreads == 1..NLogThreads

\* the builds and terminals: without the feature, with it on a terminal that
\* supports color, with it on one that does not
Hosts == {[color_feature |-> FALSE, ansi |-> FALSE],
          [color_feature |-> TRUE, ansi |-> TRUE],
          [color_feature |-> TRUE, ansi |-> FALSE]}

\* what the clocks answer: the wall clock may stand before the UNIX epoch
Elapsed == [secs |-> 12, nanos |-> 345000000]
Clocks == {[wall |-> Some(Elapsed), mono |-> Elapsed],
           [wall |-> None, mono |-> Elapsed]}

\* the records logged: targets, levels, one message
RecTargets == {TgtA, TgtTokio}
RecArgs == <<"h", "i">>

\* tag the operations of one record
Tag(id, ops) == [i \in 1..Len(ops) |-> [rec |-> id, op |-> ops[i].op, arg |-> ops[i].arg]]

\* standard output taken without regard to its lock
StdoutAvailable_NoLock == TRUE

\* the standard output lock can be taken
StdoutAvailable == lock = 0

HandleIdle ==
    /\ handled = <<>>
    /\ hpc = [t \in LogThreads |-> "idle"]
    /\ hrec = [t \in LogThreads |-> 0]
    /\ hstage = [t \in LogThreads |-> 0]
    /\ buffer = [t \in LogThreads |-> <<>>]
    /\ lock = 0
    /\ stdout = <<>>

SetOutcome(id, outcome) == [handled EXCEPT ![id].outcome = outcome]

\* a log macro on thread t: the facade's gate, then Logger::log
Log(t) ==
    /\ t \in active
    /\ hpc[t] = "idle"
    /\ Len(handled) < MaxRecords
    /\ LOGGER = "instance"
    /\ \E in \in inputs :
        /\ Ord[in[2]] <= Ord[MAX_LEVEL]
        /\ LET target == in[1]
               level == in[2]
               go == Logger_log(Unwrap(Instance), target, level)
           IN  /\ handled' = Append(handled,
                       [target |-> target, level |-> level, args |-> RecArgs,
                        outcome |-> IF go THEN "printing" ELSE "skipped"])
               /\ hpc' = [hpc EXCEPT ![t] = IF go THEN "print" ELSE "idle"]
               /\ hrec' = [hrec EXCEPT ![t] = IF go THEN Len(handled) + 1 ELSE 0]
    /\ UNCHANGED <<host, active, inputs, hstage, buffer, lock, stdout>>
    /\ UNCHANGED <<fvars, ivars, tvars, bvars>>

\* Pretty::print, up to its first stage: the sink is a fresh buffer, or the
\* locked standard output
PrintEnter(t) ==
    /\ hpc[t] = "print"
    /\ \/ /\ host.color_feature
          /\ buffer' = [buffer EXCEPT ![t] = <<>>]
          /\ lock' = lock
       \/ /\ ~host.color_feature
          /\ StdoutAvailable
          /\ lock' = t
          /\ buffer' = buffer
    /\ hpc' = [hpc EXCEPT ![t] = "stage"]
    /\ hstage' = [hstage EXCEPT ![t] = 1]
    /\ UNCHANGED <<host, active, inputs, handled, hrec, stdout>>
    /\ UNCHANGED <<fvars, ivars, tvars, bvars>>

\* Pretty::print, one stage: what it writes goes to the sink; a failure
\* returns at once (the buffer is dropped, the lock released), and
\* Logger::print discards the error; after the last stage the build without
\* the feature returns, the other goes on to BufferWriter::print
PrintStage(t) ==
    /\ hpc[t] = "stage"
    /\ \E clock \in Clocks :
        LET id == hrec[t]
            pretty == Unwrap(Instance).fmt
            r == Pretty_print_stage(pretty, Stages[hstage[t]], handled[id], host, clock)
            last == hstage[t] = Len(Stages)
        IN  /\ IF host.color_feature
               THEN /\ buffer' = [buffer EXCEPT ![t] = IF r.ok THEN @ \o r.out ELSE <<>>]
                    /\ stdout' = stdout
               ELSE /\ stdout' = stdout \o Tag(id, r.out)
                    /\ buffer' = buffer
            /\ IF ~r.ok
               THEN /\ hpc' = [hpc EXCEPT ![t] = "idle"]
                    /\ hstage' = [hstage EXCEPT ![t] = 0]
                    /\ hrec' = [hrec EXCEPT ![t] = 0]
                    /\ handled' = SetOutcome(id, "failed")
                    /\ lock' = IF host.color_feature THEN lock ELSE 0
               ELSE IF ~last
               THEN /\ hstage' = [hstage EXCEPT ![t] = @ + 1]
                    /\ UNCHANGED <<hpc, hrec, handled, lock>>
               ELSE IF host.color_feature
               THEN /\ hpc' = [hpc EXCEPT ![t] = "flush"]
                    /\ hstage' = [hstage EXCEPT ![t] = 0]
                    /\ UNCHANGED <<hrec, handled, lock>>
               ELSE /\ hpc' = [hpc EXCEPT ![t] = "idle"]
                    /\ hstage' = [hstage EXCEPT ![t] = 0]
                    /\ hrec' = [hrec EXCEPT ![t] = 0]
                    /\ handled' = SetOutcome(id, "printed")
                    /\ lock' = 0
    /\ UNCHANGED <<host, active, inputs>>
    /\ UNCHANGED <<fvars, ivars, tvars, bvars>>

\* buf_writer.print(&buffer): take the standard output lock
FlushLock(t) ==
    /\ hpc[t] = "flush"
    /\ StdoutAvailable
    /\ lock' = t
    /\ hpc' = [hpc EXCEPT ![t] = "write"]
    /\ UNCHANGED <<host, active, inputs, handled, hrec, hstage, buffer, stdout>>
    /\ UNCHANGED <<fvars, ivars, tvars, bvars>>

\* buf_writer.print(&buffer): write_all, one write at a time; a write takes
\* the first operation of what is left, or all of it
FlushWrite(t) ==
    /\ hpc[t] = "write"
    /\ buffer[t] # <<>>
    /\ \E n \in {1, Len(buffer[t])} :
        /\ stdout' = stdout \o Tag(hrec[t], SubSeq(buffer[t], 1, n))
        /\ buffer' = [buffer EXCEPT ![t] = SubSeq(@, n + 1, Len(@))]
    /\ UNCHANGED <<host, active, inputs, handled, hpc, hrec, hstage, lock>>
    /\ UNCHANGED <<fvars, ivars, tvars, bvars>>

\* buf_writer.print(&buffer) returns: the lock is released
FlushDone(t) ==
    /\ hpc[t] = "write"
    /\ buffer[t] = <<>>
    /\ lock' = 0
    /\ handled' = SetOutcome(hrec[t], "printed")
    /\ hpc' = [hpc EXCEPT ![t] = "idle"]
    /\ hrec' = [hrec EXCEPT ![t] = 0]
    /\ UNCHANGED <<host, active, inputs, hstage, buffer, stdout>>
    /\ UNCHANGED <<fvars, ivars, tvars, bvars>>

\* the configurations of the installed handler
TimeSources == {None, Some(TimeSource("Uptime", Fractional(2))),
                Some(TimeSource("Timestamp", Whole))}
Continuations == {None, Some(DefaultContinuation)}
Prettys == {Pretty(l, tg, tm, c, u) :
                l \in BOOLEAN, tg \in BOOLEAN, tm \in TimeSources,
                c \in Continuations, u \in BOOLEAN}
HandlerFilters == {None, Some(Filtered_new(<<SegTwoEq>>)),
                   Some(Filtered_new(<<SegTokioWarn, SegNoEq>>))}

\* the state after a successful initialize call that installed logger
Installed(logger) ==
    /\ Instance = Some(logger)
    /\ LogState = "INITIALIZED"
    /\ LOGGER = "instance"
    /\ MAX_LEVEL = "Trace"
    /\ calls = 1
    /\ ipc = [t \in Threads |-> "idle"]
    /\ iarg = [t \in Threads |-> None]
    /\ returned = {[id |-> 1, logger |-> logger, ret |-> "Ok",
                    gate0 |-> "Off", gate1 |-> "Trace",
                    handler0 |-> None, handler1 |-> Some(logger)]}

------------------------------------------------------------------------------
(* Specifications                                                            *)

\* the filter alone
FilterNext ==
    \/ FilteredNew
    \/ FilteredFromStr
    \/ FilteredFromEnvKey
    \/ FilteredApply

NoHost ==
    /\ host = [color_feature |-> TRUE, ansi |-> TRUE]
    /\ active = {}
    /\ inputs = {}

\* no time source asked, no builder made
TimeIdle ==
    /\ tStyle = Whole
    /\ tElapsed = [secs |-> 0, nanos |-> 0]
    /\ tOut = [Timestamp |-> None, Uptime |-> None]

BuilderIdle ==
    /\ builder = None
    /\ bCalls = <<>>
    /\ built = None

\* nothing built, nothing installed, nobody logging
Init == FilterInit /\ InstallInit /\ NoHost /\ HandleIdle /\ TimeIdle /\ BuilderIdle

SpecFilter == Init /\ [][FilterNext]_vars

\* installation of the handler by racing threads
InstallNext ==
    \/ \E t \in Threads : init(t)
    \/ \E t \in Threads : init_with_filters(t)
    \/ \E t \in Threads : GetOrInit(t)
    \/ \E t \in Threads : SetMaxLevel(t)
    \/ \E t \in Threads : SetLogger(t)
    \/ \E t \in Threads : SetLoggerStore(t)
    \/ \E t \in Threads : Return(t)
    \/ ForeignSetLogger

SpecInstall == Init /\ [][InstallNext]_vars

\* records handled by the installed handler
HandleNext ==
    \/ \E t \in LogThreads : Log(t)
    \/ \E t \in LogThreads : PrintEnter(t)
    \/ \E t \in LogThreads : PrintStage(t)
    \/ \E t \in LogThreads : FlushLock(t)
    \/ \E t \in LogThreads : FlushWrite(t)
    \/ \E t \in LogThreads : FlushDone(t)

\* one thread; every min_level and filter table, two formats
HandleInit ==
    /\ FilterInit
    /\ \E pretty \in {Pretty(TRUE, TRUE, None, None, TRUE),
                      Pretty(FALSE, TRUE, Some(TimeSource("Timestamp", Whole)),
                             None, FALSE)},
          min_level \in LevelFilters, filters \in HandlerFilters :
           Installed(Logger(pretty, min_level, filters))
    /\ host \in Hosts
    /\ active = {1}
    /\ inputs = RecTargets \X Levels
    /\ HandleIdle
    /\ TimeIdle
    /\ BuilderIdle

SpecHandle == HandleInit /\ [][HandleNext]_vars

\* one thread; every format, a handler that prints every record
RenderInit ==
    /\ FilterInit
    /\ \E pretty \in Prettys : Installed(Logger(pretty, "Trace", None))
    /\ host \in Hosts
    /\ active = {1}
    /\ inputs = {TgtAB} \X Levels
    /\ HandleIdle
    /\ TimeIdle
    /\ BuilderIdle

SpecRender == RenderInit /\ [][HandleNext]_vars

\* every thread logs the same record; the handler prints every record
ConcurrentInit ==
    /\ FilterInit
    /\ \E tm \in TimeSources :
           Installed(Logger(Pretty(TRUE, TRUE, tm, None, TRUE), "Trace", None))
    /\ host \in Hosts
    /\ active = LogThreads
    /\ inputs = {<<TgtAB, "Info">>}
    /\ HandleIdle
    /\ TimeIdle
    /\ BuilderIdle

SpecConcurrent == ConcurrentInit /\ [][HandleNext]_vars

------------------------------------------------------------------------------
(* format/time.rs: Timestamp and Uptime asked for the same duration          *)

\* widths of Fractional tried, and whole seconds tried
MaxWidth == 10
MaxSecs == 2

TimestampStyles == {Whole} \cup {Fractional(n) : n \in 0..MaxWidth}
NanoSamples == {0, 5, 1000, 100000000, 345000000, 999999999}
Durations ==
    {[secs |-> sec, nanos |-> n] :
        sec \in (0..MaxSecs) \cup {Elapsed.secs}, n \in NanoSamples}

\* Timestamp::new(style) / Uptime::new(style), and clocks that both answer
\* tElapsed
TimeInit ==
    /\ FilterInit /\ InstallInit /\ NoHost /\ HandleIdle /\ BuilderIdle
    /\ tStyle \in TimestampStyles
    /\ tElapsed \in Durations
    /\ tOut = [Timestamp |-> None, Uptime |-> None]

\* Timestamp { style }.format_time(w)
TimestampFormatTime ==
    /\ tOut.Timestamp = None
    /\ tOut' = [tOut EXCEPT
                   !.Timestamp = Some(Timestamp_format_time(tStyle, Some(tElapsed)))]
    /\ UNCHANGED <<tStyle, tElapsed, fvars, ivars, hvars, bvars>>

\* Uptime { epoch, style }.format_time(w)
UptimeFormatTime ==
    /\ tOut.Uptime = None
    /\ tOut' = [tOut EXCEPT
                   !.Uptime = Some(Uptime_format_time(tStyle, tElapsed))]
    /\ UNCHANGED <<tStyle, tElapsed, fvars, ivars, hvars, bvars>>

TimeNext ==
    \/ TimestampFormatTime
    \/ UptimeFormatTime

SpecTime == TimeInit /\ [][TimeNext]_vars

------------------------------------------------------------------------------
(* logger/pretty.rs: PrettyBuilder                                           *)

\* option calls made on one builder
MaxOptionCalls == 3

\* <Pretty as Default>::default
Pretty_default == Pretty(TRUE, TRUE, None, None, TRUE)

\* <PrettyBuilder as Default>::default: the five fields of the tuple take
\* their types' defaults (None, false, false, None, the default colors)
PrettyBuilder_default ==
    [time |-> None, target |-> FALSE, level |-> FALSE, use_color |-> TRUE,
     continuation |-> None, record_colors |-> DefaultRecordColors]

\* Uptime::default and Timestamp::new(style.into().unwrap_or_default())
Uptime_default == TimeSource("Uptime", Fractional(9))
Timestamp_new(style) == TimeSource("Timestamp", style)
TimestampStyle_default == Whole

\* the arguments the calls are made with
CustomColors == [DefaultRecordColors EXCEPT !.message = "Ansi256(15)"]
CustomTimes == {TimeSource("Uptime", Fractional(2))}
CustomContinuation == <<"-", ">">>
ContinuationArgs == {None, Some(CustomContinuation)}
StyleArgs == {None, Some(Fractional(2))}

\* builder() and build() have not been called yet; the build has the
\* feature "color" or not
BuilderInit ==
    /\ FilterInit /\ InstallInit /\ HandleIdle /\ TimeIdle
    /\ host \in Hosts
    /\ active = {}
    /\ inputs = {}
    /\ BuilderIdle

\* Pretty::builder()
Pretty_builder ==
    /\ builder = None
    /\ built = None
    /\ builder' = Some(PrettyBuilder_default)
    /\ UNCHANGED <<bCalls, built, fvars, ivars, hvars, tvars>>

\* one option call: self is moved in, changed and returned
OptionCall(fn, arg, self) ==
    /\ builder # None
    /\ Len(bCalls) < MaxOptionCalls
    /\ builder' = Some(self)
    /\ bCalls' = Append(bCalls, [fn |-> fn, arg |-> arg])
    /\ UNCHANGED <<built, fvars, ivars, hvars, tvars>>

\* PrettyBuilder::with_time and the body shared by uptime / unix_timestamp
PrettyBuilder_with_time(self, time) == [self EXCEPT !.time = Some(time)]

with_custom_colors ==
    /\ host.color_feature
    /\ builder # None
    /\ OptionCall("with_custom_colors", CustomColors,
                  [Unwrap(builder) EXCEPT !.record_colors = CustomColors])

with_color ==
    /\ host.color_feature
    /\ builder # None
    /\ OptionCall("with_color", None, [Unwrap(builder) EXCEPT !.use_color = TRUE])

without_color ==
    /\ host.color_feature
    /\ builder # None
    /\ OptionCall("without_color", None, [Unwrap(builder) EXCEPT !.use_color = FALSE])

with_time ==
    /\ builder # None
    /\ \E time \in CustomTimes :
           OptionCall("with_time", time, PrettyBuilder_with_time(Unwrap(builder), time))

without_time ==
    /\ builder # None
    /\ OptionCall("without_time", None, [Unwrap(builder) EXCEPT !.time = None])

with_target ==
    /\ builder # None
    /\ OptionCall("with_target", None, [Unwrap(builder) EXCEPT !.target = TRUE])

without_target ==
    /\ builder # None
    /\ OptionCall("without_target", None, [Unwrap(builder) EXCEPT !.target = FALSE])

with_level ==
    /\ builder # None
    /\ OptionCall("with_level", None, [Unwrap(builder) EXCEPT !.level = TRUE])

without_level ==
    /\ builder # None
    /\ OptionCall("without_level", None, [Unwrap(builder) EXCEPT !.level = FALSE])

with_continuation ==
    /\ builder # None
    /\ \E cont \in ContinuationArgs :
           OptionCall("with_continuation", cont,
                      [Unwrap(builder) EXCEPT
                          !.continuation =
                              Some(IF cont = None THEN DefaultContinuation
                                   ELSE Unwrap(cont))])

without_continuation ==
    /\ builder # None
    /\ OptionCall("without_continuation", None,
                  [Unwrap(builder) EXCEPT !.continuation = None])

uptime ==
    /\ builder # None
    /\ OptionCall("uptime", None,
                  PrettyBuilder_with_time(Unwrap(builder), Uptime_default))

unix_timestamp ==
    /\ builder # None
    /\ \E style \in StyleArgs :
           OptionCall("unix_timestamp", style,
                      PrettyBuilder_with_time(
                          Unwrap(builder),
                          Timestamp_new(IF style = None THEN TimestampStyle_default
                                        ELSE Unwrap(style))))

\* PrettyBuilder::build: self is consumed
build ==
    /\ builder # None
    /\ LET self == Unwrap(builder)
       IN  built' = Some([continuation |-> self.continuation,
                          level |-> self.level,
                          target |-> self.target,
                          time |-> self.time,
                          use_color |-> self.use_color,
                          record_colors |-> self.record_colors])
    /\ builder' = None
    /\ UNCHANGED <<bCalls, fvars, ivars, hvars, tvars>>

BuilderNext ==
    \/ Pretty_builder
    \/ with_custom_colors
    \/ with_color
    \/ without_color
    \/ with_time
    \/ without_time
    \/ with_target
    \/ without_target
    \/ with_level
    \/ without_level
    \/ with_continuation
    \/ without_continuation
    \/ uptime
    \/ unix_timestamp
    \/ build

SpecBuilder == BuilderInit /\ [][BuilderNext]_vars

------------------------------------------------------------------------------
(* Claims about the filter (SpecFilter)                                      *)

\* the text of a segment before its first '='
KeyOf(seg) == Split(seg, "=")[1]

\* a segment that has a '=' and a non-empty key
WellFormed(seg) == Contains(seg, Eq) /\ KeyOf(seg) # <<>>

\* target t is k itself or a sub-namespace of k
WithinNamespace(k, t) == t = k \/ StartsWith(t, k \o Sep)

\* C4: filter matching respects module boundaries: a rule with (non-empty)
\* prefix k is applied to target t only if t equals k or t continues k with
\* "::"; a rule "tokio" is applied to "tokio" and never suppresses
\* "tokio_util::io" or "tokioX", at any level.
C4_ModuleBoundary ==
    fQuery # None =>
        LET q == Unwrap(fQuery)
        IN  \A p \in Unwrap(fTable) :
                /\ (p[1] # <<>> /\ RuleMatches(p[1], q.input))
                       => WithinNamespace(p[1], q.input)
                /\ (p[1] = Tokio /\ q.input = TgtTokio)
                       => RuleMatches(p[1], q.input)
                /\ (p[1] = Tokio /\ q.input \in {TgtTokioUtilIo, TgtTokioX})
                       => ~RuleSuppresses(p[1], p[2], q.input, q.level)

\* the pairs the test new_filtered expects to be suppressed, and not
TestIgnored == {<<TgtMioUdsSpam, "Trace">>, <<TgtTokioIoRead, "Trace">>}
TestAllowed == {<<TgtTokio, "Info">>, <<TgtMionext, "Trace">>,
                <<TgtMioFoo, "Warn">>, <<TgtTokioSyncMutex, "Debug">>,
                <<TgtTokioUtilIo, "Warn">>}

C6_MalformedDropped ==
    fTable # None =>
        \A p \in Unwrap(fTable) :
            \E i \in 1..Len(fSegs) :
                WellFormed(fSegs[i]) /\ KeyOf(fSegs[i]) = p[1]

------------------------------------------------------------------------------
(* Claims about installation (SpecInstall)                                   *)

Succeeded == {r \in returned : r.ret = "Ok"}
Failed == {r \in returned : r.ret = "Err"}
AllReturned == calls > 0 /\ \A t \in Threads : ipc[t] = "idle"

\* C1: of any number of initialize calls, in any interleaving, at most one
\* returns success; when nobody else registered a handler and every call has
\* returned, exactly one returned success and all the others the error; and
\* once the handler is installed it stays installed and is never replaced.
C1_ExactlyOneInstall ==
    /\ [](/\ Cardinality(Succeeded) <= 1
          /\ (AllReturned /\ LOGGER # "foreign") =>
                 /\ Cardinality(Succeeded) = 1
                 /\ Cardinality(Failed) = calls - 1)
    /\ [][/\ LogState = "INITIALIZED" => LogState' = "INITIALIZED"
          /\ LOGGER # "nop" => LOGGER' = LOGGER
          /\ Instance # None => Instance' = Instance]_vars

\* C1 witness: three calls have returned, one with success, two with the error
C1_Witness ==
    /\ AllReturned
    /\ LOGGER = "instance"
    /\ Cardinality(Succeeded) = 1
    /\ Cardinality(Failed) = 2

\* C2: the call that returns success is the call whose format, min_level and
\* filters the installed handler holds, and a call that returns the error
\* does not have its own configuration in effect.
C2_WinnerOwnsConfig ==
    \A r \in returned :
        /\ r.ret = "Ok" => InstalledHandler = Some(r.logger)
        /\ r.ret = "Err" => InstalledHandler # Some(r.logger)

\* C9: a call that returns the error leaves the facade's gate and the
\* installed handler as they were when it was entered.
C9_FailedInitIsNoOp ==
    \A r \in Failed :
        /\ r.gate1 = r.gate0
        /\ r.handler0 # None => r.handler1 = r.handler0

------------------------------------------------------------------------------
(* Claims about handling records (SpecHandle, SpecRender, SpecConcurrent)    *)

\* the installed handler and its format
TheLogger == Unwrap(Instance)
ThePretty == TheLogger.fmt

\* what standard output holds of record id
OutputOf(id) == SelectSeq(stdout, LAMBDA x : x.rec = id)

\* C3: a record is rendered exactly when its level <= min_level and no filter
\* table is present or the table does not suppress it; a record that is not
\* rendered leaves nothing on standard output; without filters and with
\* min_level Info exactly Error, Warn and Info are rendered, and with
\* min_level Off nothing is.
C3_Dispatch ==
    \A id \in 1..Len(handled) :
        LET h == handled[id]
            rendered == h.outcome # "skipped"
            suppressed ==
                /\ TheLogger.filters # None
                /\ Filtered_apply(Unwrap(TheLogger.filters), h.target, h.level)
        IN  /\ rendered <=> (Ord[h.level] <= Ord[TheLogger.min_level] /\ ~suppressed)
            /\ ~rendered => OutputOf(id) = <<>>
            /\ (TheLogger.filters = None /\ TheLogger.min_level = "Info")
                   => (rendered <=> h.level \in {"Error", "Warn", "Info"})
            /\ TheLogger.min_level = "Off" => ~rendered

\* C3 witness: no filters, min_level Info; an Info record was printed and a
\* Debug record was not
C3_Witness ==
    /\ TheLogger.filters = None
    /\ TheLogger.min_level = "Info"
    /\ Len(handled) = 2
    /\ handled[1].level = "Info" /\ handled[1].outcome = "printed"
    /\ handled[2].level = "Debug" /\ handled[2].outcome = "skipped"

\* C7: on standard output the items of one record form one contiguous run:
\* nothing of another record lies between two items of the same record.
C7_Contiguous ==
    \A i \in 1..Len(stdout) : \A k \in (i + 1)..Len(stdout) :
        stdout[i].rec = stdout[k].rec
            => \A j \in i..k : stdout[j].rec = stdout[i].rec

\* C7 witness: one thread is in the middle of writing its record while
\* another has rendered its own and waits for standard output
C7_Witness ==
    \E t1 \in LogThreads, t2 \in LogThreads :
        /\ t1 # t2
        /\ lock = t1 /\ hpc[t1] = "write"
        /\ stdout # <<>> /\ buffer[t1] # <<>>
        /\ hpc[t2] = "flush"

\* C8: a record whose render failed leaves nothing on standard output, and
\* every record printed has its whole line there, ending with the newline.
C8_FailedRenderWritesNothing ==
    \A id \in 1..Len(handled) :
        /\ handled[id].outcome = "failed" => OutputOf(id) = <<>>
        /\ handled[id].outcome = "printed" =>
               /\ OutputOf(id) # <<>>
               /\ OutputOf(id)[Len(OutputOf(id))].arg = <<"\n">>

\* the sink is painted at position i of ops: a set before i has no reset yet
Colored(ops, i) ==
    \E a \in 1..(i - 1) :
        /\ ops[a].op = "set"
        /\ \A b \in (a + 1)..(i - 1) : ops[b].op # "reset"

\* every set is closed by a reset with only writes in between, every reset
\* closes a set, and nothing is painted at the end
Balanced(ops) ==
    /\ \A i \in 1..Len(ops) :
           /\ ops[i].op = "set" => ~Colored(ops, i)
           /\ ops[i].op = "reset" => Colored(ops, i)
    /\ ~Colored(ops, Len(ops) + 1)

\* the stages the format has
StageCount(pretty) ==
    (IF pretty.level THEN 1 ELSE 0) + (IF pretty.target THEN 1 ELSE 0)
    + (IF pretty.time # None THEN 1 ELSE 0)
    + (IF pretty.continuation # None THEN 1 ELSE 0) + 1

\* C10: on a painting sink, the operations of every printed record are
\* balanced and there is one set for every stage; the brackets around the
\* target and the newlines are written while no color is set, the record
\* ends with the newline; and the buffer is balanced between any two stages.
C10_ColorBalanced ==
    Painting(ThePretty, host) =>
        /\ \A id \in 1..Len(handled) :
               handled[id].outcome = "printed" =>
                   LET ops == OutputOf(id)
                   IN  /\ Balanced(ops)
                       /\ Cardinality({i \in 1..Len(ops) : ops[i].op = "set"})
                              = StageCount(ThePretty)
                       /\ \A i \in 1..Len(ops) :
                              (/\ ops[i].op = "write"
                               /\ ops[i].arg \in {<<" ", "[">>, <<"]">>, <<"\n">>})
                                  => ~Colored(ops, i)
                       /\ ops[Len(ops)] = [rec |-> id, op |-> "write", arg |-> <<"\n">>]
        /\ \A t \in LogThreads :
               hpc[t] \in {"stage", "flush"} => Balanced(buffer[t])

\* C10 witness: a record with every stage was printed on a painting sink
C10_Witness ==
    /\ Painting(ThePretty, host)
    /\ ThePretty.level /\ ThePretty.target
    /\ ThePretty.time # None /\ ThePretty.continuation # None
    /\ Len(handled) >= 1
    /\ handled[1].outcome = "printed"

------------------------------------------------------------------------------
(* Claims about the rendered text (SpecRender)                               *)

\* the text of a sequence of sink operations: what its writes wrote, in order
RECURSIVE TextOf(_)
TextOf(ops) ==
    IF ops = <<>> THEN <<>>
    ELSE (IF Head(ops).op = "write" THEN Head(ops).arg ELSE <<>>)
         \o TextOf(Tail(ops))

\* the line the claim describes, for the time text the clock gives
ClaimedLine(pretty, record, clock) ==
    (IF pretty.level
     THEN PadLeftJustified(LevelText[record.level], 5) ELSE <<>>)
    \o (IF pretty.target
        THEN <<" ", "[">> \o record.target \o <<"]">> ELSE <<>>)
    \o (IF pretty.time # None
        THEN <<" ">> \o format_time(Unwrap(pretty.time), clock).out ELSE <<>>)
    \o (IF pretty.continuation # None
        THEN <<"\n">> \o Unwrap(pretty.continuation) ELSE <<>>)
    \o <<" ">> \o record.args \o <<"\n">>

\* C11: the text of every printed record is, in this order and with nothing
\* else, the level left-justified to width 5, " [" target "]", exactly one
\* space and the time source's text, a newline and the continuation, then one
\* space, the message and a newline, each part only if the format has it; in
\* every build and on every sink, painting or not.
C11_RenderedText ==
    \A id \in 1..Len(handled) :
        handled[id].outcome = "printed" =>
            \E clock \in Clocks :
                /\ ThePretty.time # None
                       => format_time(Unwrap(ThePretty.time), clock).ok
                /\ TextOf(OutputOf(id)) = ClaimedLine(ThePretty, handled[id], clock)

------------------------------------------------------------------------------
(* Claims about the time sources (SpecTime)                                  *)

\* C12: for the same elapsed duration and the same style, Uptime writes
\* exactly the text Timestamp writes, followed by "s"; for Whole and for
\* Fractional(n) with every n >= 0, so for Fractional(0) both write the whole
\* seconds with no "." and no fractional part.
C12_UptimeIsTimestampPlusS ==
    (tOut.Timestamp # None /\ tOut.Uptime # None) =>
        LET ts == Unwrap(tOut.Timestamp)
            up == Unwrap(tOut.Uptime)
        IN  /\ ts.ok /\ up.ok
            /\ up.out = ts.out \o <<"s">>
            /\ tStyle = Fractional(0) =>
                   /\ ts.out = Digits(tElapsed.secs)
                   /\ up.out = Digits(tElapsed.secs) \o <<"s">>

------------------------------------------------------------------------------
(* Claims about the builder (SpecBuilder)                                    *)

\* the field an option call is for, and the value the call sets it to
FieldOf(call) ==
    CASE call.fn \in {"with_level", "without_level"} -> "level"
      [] call.fn \in {"with_target", "without_target"} -> "target"
      [] call.fn \in {"with_time", "without_time", "uptime", "unix_timestamp"} -> "time"
      [] call.fn \in {"with_continuation", "without_continuation"} -> "continuation"
      [] call.fn \in {"with_color", "without_color"} -> "use_color"
      [] call.fn = "with_custom_colors" -> "record_colors"

ValueSetBy(call) ==
    CASE call.fn \in {"with_level", "with_target", "with_color"} -> TRUE
      [] call.fn \in {"without_level", "without_target", "without_color"} -> FALSE
      [] call.fn \in {"without_time", "without_continuation"} -> None
      [] call.fn = "with_time" -> Some(call.arg)
      [] call.fn = "uptime" -> Some(TimeSource("Uptime", Fractional(9)))
      [] call.fn = "unix_timestamp" ->
             Some(TimeSource("Timestamp",
                             IF call.arg = None THEN Whole ELSE Unwrap(call.arg)))
      [] call.fn = "with_continuation" ->
             Some(IF call.arg = None THEN DefaultContinuation ELSE Unwrap(call.arg))
      [] call.fn = "with_custom_colors" -> call.arg

PrettyFields ==
    {"level", "target", "time", "continuation", "use_color", "record_colors"}

\* the calls of a history that are for one field, in order
CallsFor(history, field) == SelectSeq(history, LAMBDA c : FieldOf(c) = field)

\* what the claim says a field of the built configuration holds
ClaimedField(history, field) ==
    LET mine == CallsFor(history, field)
    IN  IF mine = <<>> THEN Pretty_default[field]
        ELSE ValueSetBy(mine[Len(mine)])

\* C13: after any sequence of builder option calls, each field of the built
\* configuration has the value set by the last call for that field, or the
\* value of the default Pretty (level shown, target shown, no time source, no
\* continuation, color on) if no call touched it; so builder().build() with
\* no calls equals the default Pretty.
C13_BuiltFields ==
    built # None =>
        \A field \in PrettyFields :
            Unwrap(built)[field] = ClaimedField(bCalls, field)

==============================================================================
